---- MODULE Spec2Model ----
(***************************************************************************)
(* Model of scripts/generate-manifest.ts (and its interactive twin): the   *)
(* fragment parsers, the identifier join, the page range accumulator and   *)
(* the interval reconciler (orderCanvasMapping / orderAnnotationMapping).  *)
(*                                                                         *)
(* Numbers.  Times are JavaScript numbers.  They are modelled as integers  *)
(* counting thousandths of a second, so "63.1" is 63100.  The temporal     *)
(* pattern admits no sign, so every parsed time is >= 0 or NaN; NaN is the *)
(* value -1 and every arithmetic operator below treats it as JavaScript    *)
(* does.  Inputs carry an even number of thousandths, so that the midpoint *)
(* (a + b) / 2 is exact.                                                   *)
(***************************************************************************)
EXTENDS Integers, Sequences, FiniteSets, TLC

\* ------------------------------------------------------------------ bounds
\* Observed times of the reconciler inputs are 0, 2, .., 2 * MaxT.
MaxT == 2
\* Largest number of pages (keys of canvasMinMax) given to the reconciler.
MaxCanvases == 3
\* Note ids of the annotation collections are 1..MaxNotes.
MaxNotes == 2
\* Longest annotationList under one id.
MaxAnnos == 2
\* Temporal fragments name the whole seconds 0..MaxSec.
MaxSec == 2
\* Canvases of the image manifest (each with an image service) are 1..MaxPages.
MaxPages == 2
\* Longest audio manifest (its canvases); the form selects an index 0..MaxAudioCanvases.
MaxAudioCanvases == 2

\* ----------------------------------------------------------------- numbers
\* parseFloat(undefined): the value of an omitted bound.
NaN == -1

IsNaN(x) == x = NaN

\* x + y and x / 2 of JavaScript, on the modelled numbers.
Plus(x, y) == IF IsNaN(x) \/ IsNaN(y) THEN NaN ELSE x + y

HalfOf(x) == IF IsNaN(x) THEN NaN ELSE x \div 2

\* Infinity, the initial min of a page (its negation is the initial max).
Infinity == 1000000000

\* Math.min and Math.max: NaN if either argument is NaN.
MathMin(x, y) == IF IsNaN(x) \/ IsNaN(y) THEN NaN ELSE IF x < y THEN x ELSE y

MathMax(x, y) == IF IsNaN(x) \/ IsNaN(y) THEN NaN ELSE IF x > y THEN x ELSE y

\* ---------------------------------------------------------- fragment parser
\* A fragment string is a sequence of one-character strings.
Digits == { "0", "1", "2", "3", "4", "5", "6", "7", "8", "9" }

DigitValue(c) ==
    CASE c = "0" -> 0 [] c = "1" -> 1 [] c = "2" -> 2 [] c = "3" -> 3 [] c = "4" -> 4
      [] c = "5" -> 5 [] c = "6" -> 6 [] c = "7" -> 7 [] c = "8" -> 8 [] c = "9" -> 9

CharAt(frag, i) == IF i >= 1 /\ i <= Len(frag) THEN frag[i] ELSE ""

\* An optional value: << >> is undefined, << x >> is x.
Unset == << >>

Some(x) == << x >>

\* Where the pattern's "t=" is found: the pattern is unanchored and all that
\* follows "t=" is optional, so the leftmost match is at the first "t=" (or at
\* the "&" right before it).  0 when the string holds no "t=".
TEMPORAL_SELECTOR(frag) ==
    IF \E i \in 1..Len(frag) : CharAt(frag, i) = "t" /\ CharAt(frag, i + 1) = "="
    THEN CHOOSE i \in 1..Len(frag) :
            /\ CharAt(frag, i) = "t" /\ CharAt(frag, i + 1) = "="
            /\ \A j \in 1..(i - 1) : ~(CharAt(frag, j) = "t" /\ CharAt(frag, j + 1) = "=")
    ELSE 0

\* [0-9]+ from p on, greedy: the index behind the run of digits.
RECURSIVE DigitsEnd(_, _)
DigitsEnd(frag, p) ==
    IF CharAt(frag, p) \in Digits THEN DigitsEnd(frag, p + 1) ELSE p

\* ([0-9]+(\.[0-9]+)?)? from p on: the index behind the number (p if none).
NumberEnd(frag, p) ==
    LET e == DigitsEnd(frag, p)
    IN  IF e > p /\ CharAt(frag, e) = "." /\ CharAt(frag, e + 1) \in Digits
        THEN DigitsEnd(frag, e + 1) ELSE e

\* (npt:)? from p on: the index behind it.
NptEnd(frag, p) ==
    IF /\ CharAt(frag, p) = "n" /\ CharAt(frag, p + 1) = "p"
       /\ CharAt(frag, p + 2) = "t" /\ CharAt(frag, p + 3) = ":"
    THEN p + 4 ELSE p

\* match[3] and match[6] of a match whose "t=" is at i.
MatchGroup3(frag, i) ==
    LET p == NptEnd(frag, i + 2)
        e == NumberEnd(frag, p)
    IN  IF e > p THEN Some(SubSeq(frag, p, e - 1)) ELSE Unset

MatchGroup6(frag, i) ==
    LET q == NumberEnd(frag, NptEnd(frag, i + 2))
        e == NumberEnd(frag, q + 1)
    IN  IF CharAt(frag, q) = "," /\ e > q + 1 THEN Some(SubSeq(frag, q + 1, e - 1)) ELSE Unset

RECURSIVE DigitsNumber(_)
DigitsNumber(s) ==
    IF s = << >> THEN 0
    ELSE 10 * DigitsNumber(SubSeq(s, 1, Len(s) - 1)) + DigitValue(s[Len(s)])

\* parseFloat of a matched group, in thousandths (decimals beyond the third
\* are below the model's resolution).  parseFloat(undefined) is NaN.
parseFloat(group) ==
    IF group = Unset THEN NaN
    ELSE LET s == group[1]
             e == DigitsEnd(s, 1)
             f == SubSeq(s, e + 1, Len(s))
             d(k) == IF k <= Len(f) THEN DigitValue(f[k]) ELSE 0
         IN  1000 * DigitsNumber(SubSeq(s, 1, e - 1)) + 100 * d(1) + 10 * d(2) + d(3)

\* Faulty variant of getTime: an unmatched string gives NaN bounds.
getTimeNaNDefault(frag) ==
    LET match == TEMPORAL_SELECTOR(frag)
    IN  IF match # 0
        THEN [start |-> parseFloat(MatchGroup3(frag, match)),
              end   |-> parseFloat(MatchGroup6(frag, match))]
        ELSE [start |-> NaN, end |-> NaN]

\* getTime(frag): the bounds of the match, or { start: 0, end: 0 } without one.
getTime(frag) ==
    LET match == TEMPORAL_SELECTOR(frag)
    IN  IF match # 0
        THEN [start |-> parseFloat(MatchGroup3(frag, match)),
              end   |-> parseFloat(MatchGroup6(frag, match))]
        ELSE [start |-> 0, end |-> 0]

\* ------------------------------------------------------ interval reconciler
\* Faulty variant of Compare: the entries are ordered by originalMax.
CompareByMax(a, b) ==
    IF IsNaN(a.originalMax) \/ IsNaN(b.originalMax) THEN 0
    ELSE IF a.originalMax < b.originalMax THEN -1
    ELSE IF a.originalMax > b.originalMax THEN 1 ELSE 0

\* The comparator of entries.sort: a.originalMin - b.originalMin.  A NaN
\* result is read by Array.prototype.sort as +0.  The value is the sign.
Compare(a, b) ==
    IF IsNaN(a.originalMin) \/ IsNaN(b.originalMin) THEN 0
    ELSE IF a.originalMin < b.originalMin THEN -1
    ELSE IF a.originalMin > b.originalMin THEN 1 ELSE 0

\* The comparator is consistent (ECMAScript: a strict weak ordering) on the
\* entries: "compares equal" is transitive.
ConsistentComparator(entries) ==
    \A i, j, k \in 1..Len(entries) :
        (Compare(entries[i], entries[j]) = 0 /\ Compare(entries[j], entries[k]) = 0)
            => Compare(entries[i], entries[k]) = 0

\* Insert e behind every element that does not compare greater than it.
RECURSIVE InsertSorted(_, _)
InsertSorted(e, sorted) ==
    IF sorted = << >> THEN << e >>
    ELSE IF Compare(sorted[Len(sorted)], e) <= 0 THEN Append(sorted, e)
    ELSE Append(InsertSorted(e, SubSeq(sorted, 1, Len(sorted) - 1)), sorted[Len(sorted)])

\* Array.prototype.sort is stable: equal elements keep their insertion order.
RECURSIVE StableSort(_)
StableSort(entries) ==
    IF entries = << >> THEN << >>
    ELSE InsertSorted(entries[Len(entries)], StableSort(SubSeq(entries, 1, Len(entries) - 1)))

PermutationsOf(entries) ==
    { [i \in 1..Len(entries) |-> entries[p[i]]] : p \in Permutations(1..Len(entries)) }

\* entries.sort(...): the stable order under a consistent comparator; with an
\* inconsistent one (a NaN among differing minima) the order is
\* implementation-defined, so every order is a possible outcome.
SortOutcomes(entries) ==
    IF ConsistentComparator(entries) THEN { StableSort(entries) }
    ELSE PermutationsOf(entries)

\* Faulty variants of SegmentEnd: the last entry is halved with a missing next
\* (NaN); the end is the next entry's min, not the midpoint.
SegmentEndNoLast(entries, i) ==
    IF i < Len(entries)
    THEN HalfOf(Plus(entries[i].originalMax, entries[i + 1].originalMin))
    ELSE NaN

SegmentEndNextMin(entries, i) ==
    IF i < Len(entries) THEN entries[i + 1].originalMin ELSE entries[i].originalMax

\* end of a segment: halfway to the next entry's min, or the own max if last.
SegmentEnd(entries, i) ==
    IF i < Len(entries)
    THEN HalfOf(Plus(entries[i].originalMax, entries[i + 1].originalMin))
    ELSE entries[i].originalMax

\* Faulty variant of SegmentStart: every segment starts at its own min.
SegmentStartOwnMin(entries, result, i) == entries[i].originalMin

\* start of a segment: the first entry's min, then the previous segment's end.
SegmentStart(entries, result, i) ==
    IF i = 1 THEN entries[i].originalMin ELSE result[i - 1].end

\* The for loop: result after the first n entries have been pushed.
RECURSIVE ReconcileLoop(_, _)
ReconcileLoop(entries, n) ==
    IF n = 0 THEN << >>
    ELSE LET result == ReconcileLoop(entries, n - 1)
         IN  Append(result, [id    |-> entries[n].id,
                             start |-> SegmentStart(entries, result, n),
                             end   |-> SegmentEnd(entries, n)])

\* ------------------------------------------------- insertion-ordered records
\* A JavaScript object keyed by id is a sequence of values carrying their id,
\* in insertion order (the order of Object.entries).
HasKey(obj, id) == \E i \in 1..Len(obj) : obj[i].id = id

IndexOfKey(obj, id) == CHOOSE i \in 1..Len(obj) : obj[i].id = id

Get(obj, id) == obj[IndexOfKey(obj, id)]

Put(obj, val) ==
    IF HasKey(obj, val.id) THEN [obj EXCEPT ![IndexOfKey(obj, val.id)] = val]
    ELSE Append(obj, val)

\* Object.entries(canvasMinMax).map(...): the entries in insertion order.
CanvasEntries(cmm) ==
    [i \in 1..Len(cmm) |-> [id |-> cmm[i].id, originalMin |-> cmm[i].min,
                            originalMax |-> cmm[i].max]]

\* Faulty variant of orderCanvasMapping: the loop stops one entry short.
orderCanvasMappingOneShort(cmm) ==
    { ReconcileLoop(sorted, IF sorted = << >> THEN 0 ELSE Len(sorted) - 1) :
        sorted \in SortOutcomes(CanvasEntries(cmm)) }

\* orderCanvasMapping(canvasMinMax): the possible results.
orderCanvasMapping(cmm) ==
    { ReconcileLoop(sorted, Len(sorted)) : sorted \in SortOutcomes(CanvasEntries(cmm)) }

\* Faulty variant of NoteFilter: the svgSelector is not asked for.
NoteFilterAudioOnly(range) == range.audio # Unset

\* .filter(([id, range]) => !!range.audio && range.svgSelector)
NoteFilter(range) == range.audio # Unset /\ range.svgSelector # Unset

\* Object.entries(annotation).filter(...).map(...)
AnnotationEntries(annotation) ==
    LET kept == SelectSeq(annotation, NoteFilter)
    IN  [i \in 1..Len(kept) |-> [id |-> kept[i].id,
                                 originalMin |-> kept[i].audio[1].start,
                                 originalMax |-> kept[i].audio[1].end]]

\* orderAnnotationMapping(mapping): the possible results.
orderAnnotationMapping(annotation) ==
    { ReconcileLoop(sorted, Len(sorted)) : sorted \in SortOutcomes(AnnotationEntries(annotation)) }

\* ------------------------------------------------------------------- state
VARIABLES
    mapping,          \* Record<note id, {audio, imageId, canvasId, svgSelector, minMax}>
    canvasMinMax,     \* Record<canvas id, {min, max}>
    orderedCanvases,  \* the page partition
    filteredAnnotationMapping,  \* the note partition
    newManifest,      \* the output document (Unset until built)
    pc,               \* position of the script, or of generateManifest
    cur,              \* the id whose forEach callback is running (0: none)
    visited,          \* ids whose callback has been entered in the running pass
    annos,            \* entries of the current id's annotationList consumed
    accepted,         \* how many of them the pass accepted
    audioAccepted,    \* per id: the selector value of the last accepted temporal entry
    imageAccepted,    \* per id: the body sources of the accepted spatial entries
    audioManifest,    \* the audio manifest document as parsed (Unset until read)
    audioAnnotations, \* the temporal collection, when it is held as a whole
    imageAnnotations, \* the spatial collection, when it is held as a whole
    formData,         \* useState: the form (its selectedCanvasIndex)
    isLoading,        \* useState
    generatedManifest,  \* useState: '' is Unset, else the serialised document
    error,            \* useState: '' or the message shown
    promises,         \* the four fetchJson promises of the running generateManifest
    closure           \* formData as the running generateManifest captured it

\* The collections held as a whole.
collections == << audioAnnotations, imageAnnotations >>

\* The state of the ManifestGenerator component.
component == << formData, isLoading, generatedManifest, error, promises, closure >>

vars == << mapping, canvasMinMax, orderedCanvases, filteredAnnotationMapping, newManifest,
           pc, cur, visited, annos, accepted, audioAccepted, imageAccepted, audioManifest,
           collections, component >>

\* ------------------------------------------------------------ the inputs
NoteIds == 1..MaxNotes

\* The decimal digits of n < 100.
DecimalString(n) ==
    LET d(k) == CHOOSE c \in Digits : DigitValue(c) = k
    IN  IF n < 10 THEN << d(n) >> ELSE << d(n \div 10), d(n % 10) >>

\* Selector values of the temporal collection: "t=a,b" for whole seconds a
\* and b (b < a included), one with the npt: marker and decimals, one with
\* each bound omitted, and one that holds no "t=".
TemporalValues ==
    { << "t", "=" >> \o DecimalString(a) \o << "," >> \o DecimalString(b) : a, b \in 0..MaxSec }
      \cup { << "&", "t", "=", "n", "p", "t", ":", "0", ".", "5", "," >>
                \o DecimalString(MaxSec) \o << ".", "5" >>,
             << "t", "=" >> \o DecimalString(MaxSec),
             << "t", "=", "," >> \o DecimalString(MaxSec),
             << "x", "y", "w", "h", "=", "1", ",", "2" >> }

FRAGMENT == "FragmentSelector"

\* What an entry of the temporal collection may look like: body.source and
\* body.selector.type present or not, and the selector value (a string, or
\* missing).
AudioAnnos ==
    { [source |-> Some("audio"), type |-> FRAGMENT, value |-> Some(v)] : v \in TemporalValues }
      \cup { [source |-> Unset, type |-> FRAGMENT, value |-> Some(<< "t", "=", "1", ",", "2" >>)],
             [source |-> Some("audio"), type |-> "", value |-> Some(<< "t", "=", "1", ",", "2" >>)],
             [source |-> Some("audio"), type |-> FRAGMENT, value |-> Unset] }

\* Body sources of the spatial collection: the image services of the manifest
\* (service s belongs to canvas s), and 0, a locator that is no such service.
Sources == 0..MaxPages

ImageAnnos ==
    { [source |-> Some(src), type |-> FRAGMENT, value |-> Some("((P1,2)(P3,4))")] : src \in Sources }
      \cup { [source |-> Unset, type |-> FRAGMENT, value |-> Some("((P1,2)(P3,4))")],
             [source |-> Some(1), type |-> "", value |-> Some("((P1,2)(P3,4))")],
             [source |-> Some(1), type |-> FRAGMENT, value |-> Unset] }

\* An annotation of the audio manifest, with the type and format of its body,
\* and one that has no body.
Anno(type, format) == [body |-> Some([type |-> type, format |-> format])]

NoBody == [body |-> Unset]

\* What a canvas of the audio manifest may look like: its annotation pages
\* (items), each the sequence of its annotations (items).  A missing items is
\* the empty sequence.  In turn: a sound in its first place; the same with the
\* format fixAudio gives; a video only; a video followed by a resource of an
\* audio format; a sound on the second page, the first being empty; one whose
\* first annotation has no body; no page.
AudioCanvases ==
    { << [items |-> << Anno("Sound", "audio/mp4") >>] >>,
      << [items |-> << Anno("Sound", "audio/mpeg") >>] >>,
      << [items |-> << Anno("Video", "video/mp4") >>] >>,
      << [items |-> << Anno("Video", "video/mp4"), Anno("Audio", "audio/mp4") >>] >>,
      << [items |-> << >>], [items |-> << Anno("Sound", "audio/mp4") >>] >>,
      << [items |-> << NoBody, Anno("Sound", "audio/mp4") >>] >>,
      << >> }

\* The audio manifests the script is run on: one canvas.
ScriptAudioManifests ==
    { << [items |-> << [items |-> << Anno("Sound", "audio/mp4") >>] >>] >>,
      << [items |-> << [items |-> << Anno("Sound", "audio/mpeg") >>] >>] >>,
      << [items |-> << >>] >> }

\* anno.body.format?.includes('audio')
IncludesAudio(format) == format \in { "audio/mp4", "audio/mpeg" }

\* fixAudio(audio) cannot assign: audio, or its body, is undefined.
FixAudioThrows(man, index) ==
    \/ index + 1 > Len(man)
    \/ man[index + 1].items = << >>
    \/ man[index + 1].items[1].items = << >>
    \/ man[index + 1].items[1].items[1].body = Unset

\* fixAudio(audio): audio after the two assignments to its body.
fixAudio(audio) ==
    [audio EXCEPT !.body = Some([type |-> "Sound", format |-> "audio/mpeg"])]

\* The manifest document after fixAudio(audioCanvas.items[0].items[0]) on the
\* canvas at index: the annotation is an object of the document, and the
\* assignments are made to it in place.
AfterFixAudio(man, index) ==
    [man EXCEPT ![index + 1].items[1].items[1] = fixAudio(@)]

\* serviceToCanvasId[source], undefined for a source that is no service.
serviceToCanvasId(source) ==
    IF source \in 1..MaxPages THEN Some(source) ELSE Unset

\* anno?.body?.source && anno?.body?.selector?.type === "FragmentSelector"
Accepted(anno) == anno.source # Unset /\ anno.type = FRAGMENT

\* mapping[id] || {}
EmptyNote(id) ==
    [id |-> id, audio |-> Unset, imageId |-> Unset, canvasId |-> Unset,
     svgSelector |-> Unset, minMax |-> Unset]

NoteOrEmpty(m, id) == IF HasKey(m, id) THEN Get(m, id) ELSE EmptyNote(id)

\* Faulty variant of SetAudio: a range once stored is kept.
SetAudioOnce(note, audio) ==
    IF note.audio = Unset THEN [note EXCEPT !.audio = Some(audio)] ELSE note

\* mapping[id].audio = getTime(...)
SetAudio(note, audio) == [note EXCEPT !.audio = Some(audio)]

\* One turn of the for loop of the temporal pass, on the entry anno of id: the
\* mapping after it, and whether it threw (getTime(undefined): frag.match
\* throws, after mapping[id] is made).
AudioEntry(m, id, anno) ==
    IF ~Accepted(anno) THEN [mapping |-> m, threw |-> FALSE]
    ELSE IF anno.value = Unset
    THEN [mapping |-> Put(m, NoteOrEmpty(m, id)), threw |-> TRUE]
    ELSE [mapping |-> Put(m, SetAudio(NoteOrEmpty(m, id), getTime(anno.value[1]))),
          threw   |-> FALSE]

\* canvasMinMax[canvas.id] || { min: Infinity, max: -Infinity }
PageOrInfinite(cmm, c) ==
    IF HasKey(cmm, c) THEN Get(cmm, c)
    ELSE [id |-> c, min |-> Infinity, max |-> 0 - Infinity]

\* canvasMinMax after the two assignments that widen the page c by audio.
Widen(cmm, c, audio) ==
    Put(cmm, [id  |-> c,
              min |-> MathMin(audio.start, PageOrInfinite(cmm, c).min),
              max |-> MathMax(audio.end, PageOrInfinite(cmm, c).max)])

\* !mapping[id] || !mapping[id].audio
NoAudio(m, id) == ~HasKey(m, id) \/ Get(m, id).audio = Unset

\* The turn of the spatial pass on an accepted entry anno of an id that has a
\* time range, from "mapping[id] = mapping[id] || {}" on.  It throws where
\* parseFragmentSelector(undefined) does, and where vault.get(undefined) gives
\* no canvas to read .id of.
LocateEntry(m, cmm, id, anno) ==
    LET note    == Get(m, id)
        audio   == note.audio[1]
        canvas  == serviceToCanvasId(anno.source[1])
        located == [note EXCEPT !.imageId = anno.source, !.canvasId = canvas]
    IN  IF anno.value = Unset \/ canvas = Unset
        THEN [mapping |-> Put(m, located), canvasMinMax |-> cmm, outcome |-> "throw"]
        ELSE [mapping |-> Put(m, [located EXCEPT
                                     !.svgSelector = Some([type   |-> "SvgSelector",
                                                           canvas |-> canvas[1],
                                                           points |-> anno.value[1]]),
                                     !.minMax = canvas]),
              canvasMinMax |-> Widen(cmm, canvas[1], audio),
              outcome |-> "next"]

\* Faulty variant of ImageEntry: the callback is also left on a source that
\* is no image service.
ImageEntryLeavesUnresolved(m, cmm, id, anno) ==
    IF ~Accepted(anno) THEN [mapping |-> m, canvasMinMax |-> cmm, outcome |-> "next"]
    ELSE IF NoAudio(m, id) \/ serviceToCanvasId(anno.source[1]) = Unset
    THEN [mapping |-> m, canvasMinMax |-> cmm, outcome |-> "return"]
    ELSE LocateEntry(m, cmm, id, anno)

\* One turn of the for loop of the spatial pass, on the entry anno of id: the
\* mapping and the accumulator after it, and how the turn ends: "next" (the
\* loop goes on), "return" (the callback of this id is left) or "throw".
ImageEntry(m, cmm, id, anno) ==
    IF ~Accepted(anno) THEN [mapping |-> m, canvasMinMax |-> cmm, outcome |-> "next"]
    ELSE IF NoAudio(m, id) THEN [mapping |-> m, canvasMinMax |-> cmm, outcome |-> "return"]
    ELSE LocateEntry(m, cmm, id, anno)

\* ------------------------------------------------------------- the script
\* The ManifestGenerator component as mounted, no generateManifest running.
Mounted ==
    /\ formData = [selectedCanvasIndex |-> 2,
                   audioManifestUrl |-> << "h", "t", "t", "p", "s", ":", "/", "/", "b", "n", "f" >>]
    /\ isLoading = FALSE
    /\ generatedManifest = Unset
    /\ error = Unset
    /\ promises = << >>
    /\ closure = Unset

Init ==
    /\ mapping = << >>
    /\ canvasMinMax = << >>
    /\ orderedCanvases = << >>
    /\ filteredAnnotationMapping = << >>
    /\ newManifest = Unset
    /\ pc = "audio"
    /\ cur = 0
    /\ visited = {}
    /\ annos = 0
    /\ accepted = 0
    /\ audioAccepted = [id \in NoteIds |-> Unset]
    /\ imageAccepted = [id \in NoteIds |-> {}]
    /\ audioManifest \in { Some(man) : man \in ScriptAudioManifests }
    /\ audioAnnotations = Unset
    /\ imageAnnotations = Unset
    /\ Mounted

\* Object.entries(...).forEach enters the callback of the next id.
BeginId ==
    /\ pc \in { "audio", "image" }
    /\ cur = 0
    /\ \E id \in NoteIds \ visited :
          \* the ids are numbered in the order of the temporal collection
          /\ pc = "audio" => \A v \in visited : v < id
          /\ cur' = id
          /\ visited' = visited \cup { id }
    /\ annos' = 0
    /\ accepted' = 0
    /\ UNCHANGED << mapping, canvasMinMax, orderedCanvases, filteredAnnotationMapping,
                    newManifest, pc, audioAccepted, imageAccepted, audioManifest,
                    collections, component >>

\* The annotationList of the current id is exhausted: the callback returns.
EndId ==
    /\ pc \in { "audio", "image" }
    /\ cur # 0
    /\ cur' = 0
    /\ annos' = 0
    /\ accepted' = 0
    /\ UNCHANGED << mapping, canvasMinMax, orderedCanvases, filteredAnnotationMapping,
                    newManifest, pc, visited, audioAccepted, imageAccepted, audioManifest,
                    collections, component >>

\* The temporal pass is over, the spatial pass begins.
EndAudioPass ==
    /\ pc = "audio"
    /\ cur = 0
    /\ pc' = "image"
    /\ visited' = {}
    /\ UNCHANGED << mapping, canvasMinMax, orderedCanvases, filteredAnnotationMapping,
                    newManifest, cur, annos, accepted, audioAccepted, imageAccepted, audioManifest,
                    collections, component >>

\* The spatial pass is over.
EndImagePass ==
    /\ pc = "image"
    /\ cur = 0
    /\ pc' = "accumulated"
    /\ visited' = {}
    /\ UNCHANGED << mapping, canvasMinMax, orderedCanvases, filteredAnnotationMapping,
                    newManifest, cur, annos, accepted, audioAccepted, imageAccepted, audioManifest,
                    collections, component >>

\* One turn of the for loop of the temporal pass, on the entry anno.
AudioAnno ==
    /\ pc = "audio"
    /\ cur # 0
    /\ annos < MaxAnnos
    /\ \E anno \in AudioAnnos :
          LET after == AudioEntry(mapping, cur, anno)
          IN  /\ mapping' = after.mapping
              /\ audioAccepted' = IF Accepted(anno) /\ ~after.threw
                                  THEN [audioAccepted EXCEPT ![cur] = anno.value]
                                  ELSE audioAccepted
              /\ IF after.threw
                 THEN pc' = "failed" /\ cur' = 0 /\ annos' = 0 /\ accepted' = 0
                 ELSE /\ annos' = annos + 1
                      /\ accepted' = IF Accepted(anno) THEN accepted + 1 ELSE accepted
                      /\ UNCHANGED << pc, cur >>
    /\ UNCHANGED << canvasMinMax, orderedCanvases, filteredAnnotationMapping, newManifest,
                    visited, imageAccepted, audioManifest, collections, component >>

\* One turn of the for loop of the spatial pass, on the entry anno.
ImageAnno ==
    /\ pc = "image"
    /\ cur # 0
    /\ annos < MaxAnnos
    /\ \E anno \in ImageAnnos :
          LET after == ImageEntry(mapping, canvasMinMax, cur, anno)
          IN  /\ mapping' = after.mapping
              /\ canvasMinMax' = after.canvasMinMax
              /\ imageAccepted' = IF Accepted(anno)
                                  THEN [imageAccepted EXCEPT ![cur] = @ \cup { anno.source[1] }]
                                  ELSE imageAccepted
              /\ CASE after.outcome = "next"   ->
                          /\ annos' = annos + 1
                          /\ accepted' = IF Accepted(anno) THEN accepted + 1 ELSE accepted
                          /\ UNCHANGED << pc, cur >>
                   [] after.outcome = "return" ->
                          cur' = 0 /\ annos' = 0 /\ accepted' = 0 /\ UNCHANGED pc
                   [] after.outcome = "throw"  ->
                          pc' = "failed" /\ cur' = 0 /\ annos' = 0 /\ accepted' = 0
    /\ UNCHANGED << orderedCanvases, filteredAnnotationMapping, newManifest, visited,
                    audioAccepted, audioManifest, collections, component >>

\* const orderedCanvases = orderCanvasMapping(canvasMinMax)
OrderCanvases ==
    /\ pc = "accumulated"
    /\ orderedCanvases' \in orderCanvasMapping(canvasMinMax)
    /\ pc' = "ordered"
    /\ UNCHANGED << mapping, canvasMinMax, filteredAnnotationMapping, newManifest, cur,
                    visited, annos, accepted, audioAccepted, imageAccepted, audioManifest, collections,
                    component >>

\* const filteredAnnotationMapping = orderAnnotationMapping(mapping)
OrderAnnotations ==
    /\ pc = "ordered"
    /\ filteredAnnotationMapping' \in orderAnnotationMapping(mapping)
    /\ pc' = "filtered"
    /\ UNCHANGED << mapping, canvasMinMax, orderedCanvases, newManifest, cur, visited,
                    annos, accepted, audioAccepted, imageAccepted, audioManifest, collections,
                    component >>

\* The painting annotation of a page segment and the highlighting annotation
\* of a note segment, as newManifest holds them.
PaintingAnnotation(c) == [body |-> c.id, start |-> c.start, end |-> c.end]

HighlightAnnotation(m, n) ==
    [id |-> n.id, svgSelector |-> Get(m, n.id).svgSelector, start |-> n.start,
     end |-> n.end]

\* The object literal of newManifest, on the canvas at index of the audio
\* manifest man: the first item of its annotation page is what fixAudio
\* returns, then come the painting annotations of the page segments.
ManifestOf(man, index, m, pages, notes) ==
    [items       |-> << fixAudio(man[index + 1].items[1].items[1]) >>
                        \o [i \in 1..Len(pages) |-> PaintingAnnotation(pages[i])],
     annotations |-> [i \in 1..Len(notes) |-> HighlightAnnotation(m, notes[i])]]

\* const newManifest = {...}, on audioManifest.items[0]; building it throws
\* when that canvas has no first annotation to fix.
BuildManifest ==
    /\ pc = "filtered"
    /\ IF FixAudioThrows(audioManifest[1], 0)
       THEN pc' = "failed" /\ UNCHANGED << newManifest, audioManifest >>
       ELSE /\ newManifest' = Some(ManifestOf(audioManifest[1], 0, mapping, orderedCanvases,
                                              filteredAnnotationMapping))
            /\ audioManifest' = Some(AfterFixAudio(audioManifest[1], 0))
            /\ pc' = "written"
    /\ UNCHANGED << mapping, canvasMinMax, orderedCanvases, filteredAnnotationMapping, cur,
                    visited, annos, accepted, audioAccepted, imageAccepted, collections, component >>

Next ==
    \/ BeginId
    \/ AudioAnno
    \/ ImageAnno
    \/ EndId
    \/ EndAudioPass
    \/ EndImagePass
    \/ OrderCanvases
    \/ OrderAnnotations
    \/ BuildManifest

Spec == Init /\ [][Next]_vars

\* --------------------------------------------- the passes on whole collections
\* A collection is the sequence of its [id, annotations] entries, in the order
\* of Object.entries; annotations is the annotationList of the id.

\* for (const anno of annotationList) of the temporal pass, from the k-th
\* entry on.
RECURSIVE AudioList(_, _, _, _)
AudioList(m, id, annotationList, k) ==
    IF k > Len(annotationList) THEN [mapping |-> m, threw |-> FALSE]
    ELSE LET after == AudioEntry(m, id, annotationList[k])
         IN  IF after.threw THEN after
             ELSE AudioList(after.mapping, id, annotationList, k + 1)

\* Object.entries(audioAnnotations).forEach(...), from the i-th id on.
RECURSIVE AudioForEach(_, _, _)
AudioForEach(m, collection, i) ==
    IF i > Len(collection) THEN [mapping |-> m, threw |-> FALSE]
    ELSE LET after == AudioList(m, collection[i].id, collection[i].annotations, 1)
         IN  IF after.threw THEN after
             ELSE AudioForEach(after.mapping, collection, i + 1)

\* for (const anno of annotationList) of the spatial pass, from the k-th entry
\* on: it ends with the list ("next"), or with the turn that returns or throws.
RECURSIVE ImageList(_, _, _, _, _)
ImageList(m, cmm, id, annotationList, k) ==
    IF k > Len(annotationList) THEN [mapping |-> m, canvasMinMax |-> cmm, outcome |-> "next"]
    ELSE LET after == ImageEntry(m, cmm, id, annotationList[k])
         IN  IF after.outcome = "next"
             THEN ImageList(after.mapping, after.canvasMinMax, id, annotationList, k + 1)
             ELSE after

\* Object.entries(imageAnnotations).forEach(...), from the i-th id on.
RECURSIVE ImageForEach(_, _, _, _)
ImageForEach(m, cmm, collection, i) ==
    IF i > Len(collection) THEN [mapping |-> m, canvasMinMax |-> cmm, threw |-> FALSE]
    ELSE LET after == ImageList(m, cmm, collection[i].id, collection[i].annotations, 1)
         IN  IF after.outcome = "throw"
             THEN [mapping |-> after.mapping, canvasMinMax |-> after.canvasMinMax,
                   threw |-> TRUE]
             ELSE ImageForEach(after.mapping, after.canvasMinMax, collection, i + 1)

\* Sequences of at most n elements of S.
SeqUpTo(S, n) == UNION { [1..k -> S] : k \in 0..n }

\* The collections whose ids are among NoteIds, each id once, in any order,
\* with an annotationList out of lists.
CollectionsOf(lists) ==
    { c \in SeqUpTo([id : NoteIds, annotations : lists], MaxNotes) :
        \A i, j \in 1..Len(c) : i # j => c[i].id # c[j].id }

\* Temporal collections: under an id, nothing or one accepted entry, whole
\* seconds or an omitted end.
TimeFrames ==
    { [source |-> Some("audio"), type |-> FRAGMENT, value |-> Some(v)] :
        v \in { << "t", "=", "0", ",", "1" >>, << "t", "=", "1", "," >> \o DecimalString(MaxSec),
                << "t", "=" >> \o DecimalString(MaxSec) } }

AudioCollections ==
    { c \in CollectionsOf(SeqUpTo(TimeFrames, 1)) : \A i \in 1..(Len(c) - 1) : c[i].id < c[i + 1].id }

\* Spatial collections: under an id, up to MaxAnnos entries, each accepted on
\* some source (one of them no image service), without a source, or without
\* a selector value.
NoteRegions ==
    { [source |-> Some(src), type |-> FRAGMENT, value |-> Some("((P1,2)(P3,4))")] : src \in Sources }
      \cup { [source |-> Unset, type |-> FRAGMENT, value |-> Some("((P1,2)(P3,4))")],
             [source |-> Some(1), type |-> FRAGMENT, value |-> Unset] }

ImageCollections == CollectionsOf(SeqUpTo(NoteRegions, MaxAnnos))

\* The script run pass by pass on collections held as a whole.
InitPasses ==
    /\ mapping = << >>
    /\ canvasMinMax = << >>
    /\ orderedCanvases = << >>
    /\ filteredAnnotationMapping = << >>
    /\ newManifest = Unset
    /\ pc = "audio"
    /\ cur = 0
    /\ visited = {}
    /\ annos = 0
    /\ accepted = 0
    /\ audioAccepted = [id \in NoteIds |-> Unset]
    /\ imageAccepted = [id \in NoteIds |-> {}]
    /\ audioManifest = Some(<< [items |-> << [items |-> << Anno("Sound", "audio/mp4") >>] >>] >>)
    /\ audioAnnotations \in { Some(c) : c \in AudioCollections }
    /\ imageAnnotations \in { Some(c) : c \in ImageCollections }
    /\ Mounted

\* Object.entries(audioAnnotations).forEach(...): the whole temporal pass.
AudioPass ==
    /\ pc = "audio"
    /\ audioAnnotations # Unset
    /\ LET after == AudioForEach(mapping, audioAnnotations[1], 1)
       IN  /\ mapping' = after.mapping
           /\ pc' = IF after.threw THEN "failed" ELSE "image"
    /\ UNCHANGED << canvasMinMax, orderedCanvases, filteredAnnotationMapping, newManifest,
                    cur, visited, annos, accepted, audioAccepted, imageAccepted, audioManifest,
                    collections, component >>

\* Object.entries(imageAnnotations).forEach(...): the whole spatial pass.
ImagePass ==
    /\ pc = "image"
    /\ imageAnnotations # Unset
    /\ LET after == ImageForEach(mapping, canvasMinMax, imageAnnotations[1], 1)
       IN  /\ mapping' = after.mapping
           /\ canvasMinMax' = after.canvasMinMax
           /\ pc' = IF after.threw THEN "failed" ELSE "accumulated"
    /\ UNCHANGED << orderedCanvases, filteredAnnotationMapping, newManifest, cur, visited,
                    annos, accepted, audioAccepted, imageAccepted, audioManifest, collections,
                    component >>

NextPasses == AudioPass \/ ImagePass \/ OrderCanvases \/ OrderAnnotations \/ BuildManifest

SpecPasses == InitPasses /\ [][NextPasses]_vars

\* ------------------------------- the interactive generator (ManifestGenerator)
\* The four resources generateManifest fetches, in the order of Promise.all.
Resources == << "audioAnnotations", "imageAnnotations", "imageManifest", "audioManifest" >>

\* The image manifest: its canvases, each with the image service of its image.
ImageManifest == [c \in 1..MaxPages |-> [id |-> c, service |-> Some(c)]]

AudioManifests == SeqUpTo({ [items |-> pages] : pages \in AudioCanvases }, MaxAudioCanvases)

\* What the annotation servers may answer: no annotation; a note on each page;
\* a temporal entry without a selector value; a region on no known service.
FetchedAudioAnnotations ==
    { << >>,
      [id \in NoteIds |->
          [id |-> id, annotations |->
              << [source |-> Some("audio"), type |-> FRAGMENT,
                  value |-> Some(<< "t", "=" >> \o DecimalString(id - 1) \o << "," >>
                                    \o DecimalString(id))] >>]],
      << [id |-> 1, annotations |->
              << [source |-> Some("audio"), type |-> FRAGMENT, value |-> Unset] >>] >> }

FetchedImageAnnotations ==
    { << >>,
      [id \in NoteIds |->
          [id |-> id, annotations |->
              << [source |-> Some(IF id <= MaxPages THEN id ELSE MaxPages), type |-> FRAGMENT,
                  value |-> Some("((P1,2)(P3,4))")] >>]],
      << [id |-> 1, annotations |->
              << [source |-> Some(0), type |-> FRAGMENT, value |-> Some("((P1,2)(P3,4))")] >>] >> }

\* The JSON a resource may be answered with.
Fetched(resource) ==
    CASE resource = "audioAnnotations" -> FetchedAudioAnnotations
      [] resource = "imageAnnotations" -> FetchedImageAnnotations
      [] resource = "imageManifest"    -> { ImageManifest }
      [] resource = "audioManifest"    -> AudioManifests

\* The values of the audioManifestUrl field: a URL, or nothing.
Urls == { << "h", "t", "t", "p", "s", ":", "/", "/", "b", "n", "f" >>, << >> }

\* !url || !url.startsWith('http')
InvalidUrl(url) == url = << >> \/ Len(url) < 4 \/ SubSeq(url, 1, 4) # << "h", "t", "t", "p" >>

\* The promise of a fetchJson call.
Pending == [state |-> "pending", value |-> Unset, reason |-> ""]

Fulfilled(value) == [state |-> "fulfilled", value |-> Some(value), reason |-> ""]

Rejected(reason) == [state |-> "rejected", value |-> Unset, reason |-> reason]

\* The promise of resource, of the running generateManifest.
PromiseOf(resource) ==
    promises[CHOOSE i \in 1..Len(Resources) : Resources[i] = resource]

\* Faulty variant of AnyRejected: the rejection waits for every promise.
EveryRejected ==
    promises # << >> /\ \A i \in 1..Len(promises) : promises[i].state = "rejected"

\* Promise.all([...]) is rejected (by the first promise that is), or fulfilled:
\* the reaction, the rest of generateManifest, runs before any other task.
AnyRejected == \E i \in 1..Len(promises) : promises[i].state = "rejected"

AllFulfilled == promises # << >> /\ \A i \in 1..Len(promises) : promises[i].state = "fulfilled"

Due == pc = "fetching" /\ (AnyRejected \/ AllFulfilled)

\* The catch block: what setError is given for a thrown message.
ErrorOf(errorMessage) ==
    IF errorMessage \in { "CORS", "Failed to fetch" }
    THEN << "Network error", errorMessage >>
    ELSE << "Error generating manifest", errorMessage >>

\* The component right after construction.
InitGenerator ==
    /\ mapping = << >>
    /\ canvasMinMax = << >>
    /\ orderedCanvases = << >>
    /\ filteredAnnotationMapping = << >>
    /\ newManifest = Unset
    /\ pc = "idle"
    /\ cur = 0
    /\ visited = {}
    /\ annos = 0
    /\ accepted = 0
    /\ audioAccepted = [id \in NoteIds |-> Unset]
    /\ imageAccepted = [id \in NoteIds |-> {}]
    /\ audioManifest = Unset
    /\ audioAnnotations = Unset
    /\ imageAnnotations = Unset
    /\ Mounted

\* handleInputChange(field, value), on the two fields generateManifest's
\* outcome depends on here.
HandleInputChange ==
    /\ ~Due
    /\ \/ \E index \in 0..MaxAudioCanvases :
             formData' = [formData EXCEPT !.selectedCanvasIndex = index]
       \/ \E url \in Urls : formData' = [formData EXCEPT !.audioManifestUrl = url]
    /\ UNCHANGED << mapping, canvasMinMax, orderedCanvases, filteredAnnotationMapping,
                    newManifest, pc, cur, visited, annos, accepted, audioAccepted, imageAccepted,
                    audioManifest, collections, isLoading, generatedManifest, error,
                    promises, closure >>

\* generateManifest() up to its await: the three setters, the URL check, the
\* four fetchJson calls.  An invalid URL throws into the catch block at once.
\* The button is disabled while isLoading.
GenerateManifest ==
    /\ pc = "idle"
    /\ ~isLoading
    /\ generatedManifest' = Unset
    /\ IF InvalidUrl(formData.audioManifestUrl)
       THEN /\ error' = ErrorOf("Invalid URL")
            /\ isLoading' = FALSE
            /\ promises' = << >>
            /\ pc' = "idle"
       ELSE /\ error' = Unset
            /\ isLoading' = TRUE
            /\ promises' = [i \in 1..Len(Resources) |-> Pending]
            /\ pc' = "fetching"
    /\ closure' = Some(formData)
    /\ mapping' = << >>
    /\ canvasMinMax' = << >>
    /\ orderedCanvases' = << >>
    /\ filteredAnnotationMapping' = << >>
    /\ newManifest' = Unset
    /\ audioManifest' = Unset
    /\ audioAnnotations' = Unset
    /\ imageAnnotations' = Unset
    /\ UNCHANGED << cur, visited, annos, accepted, audioAccepted, imageAccepted, formData >>

\* A fetchJson call settles: with the parsed JSON, or rejected (the fetch
\* failed or was not ok: "Failed to fetch"; response.json() failed).
FetchJson ==
    /\ pc = "fetching"
    /\ ~Due
    /\ \E i \in 1..Len(Resources) :
          /\ promises[i].state = "pending"
          /\ \/ \E value \in Fetched(Resources[i]) :
                   promises' = [promises EXCEPT ![i] = Fulfilled(value)]
             \/ \E reason \in { "Failed to fetch", "SyntaxError" } :
                   promises' = [promises EXCEPT ![i] = Rejected(reason)]
    /\ UNCHANGED << mapping, canvasMinMax, orderedCanvases, filteredAnnotationMapping,
                    newManifest, pc, cur, visited, annos, accepted, audioAccepted, imageAccepted,
                    audioManifest, collections, formData, isLoading, generatedManifest,
                    error, closure >>

\* Promise.all is rejected by the first rejected fetch: catch and finally.
\* What the other fetches still bring is dropped with the promise.
CatchRejected ==
    /\ pc = "fetching"
    /\ AnyRejected
    /\ \E i \in 1..Len(promises) :
          /\ promises[i].state = "rejected"
          /\ error' = ErrorOf(promises[i].reason)
    /\ isLoading' = FALSE
    /\ promises' = << >>
    /\ pc' = "idle"
    /\ UNCHANGED << mapping, canvasMinMax, orderedCanvases, filteredAnnotationMapping,
                    newManifest, cur, visited, annos, accepted, audioAccepted, imageAccepted,
                    audioManifest, collections, formData, generatedManifest, closure >>

\* Faulty variant of HasAudioContent: any annotation with a body will do.
HasAnyContent(canvas) ==
    \E p \in 1..Len(canvas.items) : \E a \in 1..Len(canvas.items[p].items) :
        canvas.items[p].items[a].body # Unset

\* audioCanvas.items && audioCanvas.items.some(annoPage => annoPage.items &&
\* annoPage.items.some(anno => anno.body && (anno.body.type === 'Sound' ||
\* anno.body.format?.includes('audio'))))
HasAudioContent(canvas) ==
    \E p \in 1..Len(canvas.items) : \E a \in 1..Len(canvas.items[p].items) :
        LET anno == canvas.items[p].items[a]
        IN  /\ anno.body # Unset
            /\ anno.body[1].type = "Sound" \/ IncludesAudio(anno.body[1].format)

\* formData.selectedCanvasIndex >= audioManifest.items.length, or (past it)
\* !audioManifest.items[index]
OutOfRange(index, man) == index >= Len(man) \/ index + 1 \notin DOMAIN man

\* How the rest of generateManifest ends: the locals as they are then, the
\* audio manifest document as it is then, and the message thrown (Unset when
\* newManifest was built).
Ended(m, cmm, pages, notes, document, man, thrown) ==
    [mapping |-> m, canvasMinMax |-> cmm, orderedCanvases |-> pages,
     filteredAnnotationMapping |-> notes, newManifest |-> document, audioManifest |-> man,
     thrown |-> thrown]

\* generateManifest from the two validations on, the page partition being pages.
Validated(m, cmm, pages, man, index) ==
    IF OutOfRange(index, man)
    THEN { Ended(m, cmm, pages, << >>, Unset, man, Some("out of range")) }
    ELSE IF ~HasAudioContent(man[index + 1])
    THEN { Ended(m, cmm, pages, << >>, Unset, man, Some("does not contain audio content")) }
    ELSE { IF FixAudioThrows(man, index)
           THEN Ended(m, cmm, pages, notes, Unset, man, Some("TypeError"))
           ELSE Ended(m, cmm, pages, notes, Some(ManifestOf(man, index, m, pages, notes)),
                      AfterFixAudio(man, index), Unset) :
           notes \in orderAnnotationMapping(m) }

\* generateManifest from the await on, on the four fetched documents and the
\* selected index: the ways it can end.
Generated(audioAnnos, imageAnnos, man, index) ==
    LET audio == AudioForEach(<< >>, audioAnnos, 1)
        image == ImageForEach(audio.mapping, << >>, imageAnnos, 1)
    IN  IF audio.threw
        THEN { Ended(audio.mapping, << >>, << >>, << >>, Unset, man, Some("TypeError")) }
        ELSE IF image.threw
        THEN { Ended(image.mapping, image.canvasMinMax, << >>, << >>, Unset, man,
                     Some("TypeError")) }
        ELSE UNION { Validated(image.mapping, image.canvasMinMax, pages, man, index) :
                     pages \in orderCanvasMapping(image.canvasMinMax) }

\* Promise.all is fulfilled: the rest of generateManifest, which runs without
\* another await, to setGeneratedManifest or into the catch block, and finally.
Continue ==
    /\ pc = "fetching"
    /\ AllFulfilled
    /\ audioAnnotations' = PromiseOf("audioAnnotations").value
    /\ imageAnnotations' = PromiseOf("imageAnnotations").value
    /\ \E end \in Generated(PromiseOf("audioAnnotations").value[1],
                            PromiseOf("imageAnnotations").value[1],
                            PromiseOf("audioManifest").value[1],
                            closure[1].selectedCanvasIndex) :
          /\ mapping' = end.mapping
          /\ canvasMinMax' = end.canvasMinMax
          /\ orderedCanvases' = end.orderedCanvases
          /\ filteredAnnotationMapping' = end.filteredAnnotationMapping
          /\ newManifest' = end.newManifest
          /\ audioManifest' = Some(end.audioManifest)
          /\ IF end.thrown = Unset
             THEN generatedManifest' = end.newManifest /\ UNCHANGED error
             ELSE error' = ErrorOf(end.thrown[1]) /\ UNCHANGED generatedManifest
    /\ isLoading' = FALSE
    /\ promises' = << >>
    /\ pc' = "idle"
    /\ UNCHANGED << cur, visited, annos, accepted, audioAccepted, imageAccepted, formData, closure >>

NextGenerator ==
    \/ HandleInputChange
    \/ GenerateManifest
    \/ FetchJson
    \/ CatchRejected
    \/ Continue

SpecGenerator == InitGenerator /\ [][NextGenerator]_vars

\* ------------------------------------------- the reconciler on its own inputs
\* The two reconcilers applied to every set of at most MaxCanvases triples of
\* numbers: the state of the script after its two passes when page i carries
\* the one note i, whose time range is then the page's { min, max }.
Times == { 2 * k : k \in 0..MaxT }

PageOf(i, range) == [id |-> i, min |-> range[1], max |-> range[2]]

NoteOf(i, range) ==
    [id |-> i, audio |-> Some([start |-> range[1], end |-> range[2]]),
     imageId |-> Some(i), canvasId |-> Some(i),
     svgSelector |-> Some([type |-> "SvgSelector", canvas |-> i, points |-> "((P1,2)(P3,4))"]),
     minMax |-> Some(i)]

\* The accumulator printed in the comment above orderCanvasMapping (its first
\* two pages), in thousandths.
ExampleRanges == << << 370, 63100 >>, << 64150, 144380 >> >>

InitReconciler ==
    /\ \E ranges \in UNION { [1..n -> Times \X Times] : n \in 0..MaxCanvases }
                       \cup { ExampleRanges } :
          /\ canvasMinMax = [i \in 1..Len(ranges) |-> PageOf(i, ranges[i])]
          /\ mapping = [i \in 1..Len(ranges) |-> NoteOf(i, ranges[i])]
    /\ orderedCanvases = << >>
    /\ filteredAnnotationMapping = << >>
    /\ newManifest = Unset
    /\ pc = "accumulated"
    /\ cur = 0
    /\ visited = {}
    /\ annos = 0
    /\ accepted = 0
    /\ audioAccepted = [id \in NoteIds |-> Unset]
    /\ imageAccepted = [id \in NoteIds |-> {}]
    /\ audioManifest = Some(<< [items |-> << [items |-> << Anno("Sound", "audio/mp4") >>] >>] >>)
    /\ audioAnnotations = Unset
    /\ imageAnnotations = Unset
    /\ Mounted

\* s with the elements at i and i + 1 exchanged.
SwapAdjacent(s, i) ==
    [k \in 1..Len(s) |-> IF k = i THEN s[i + 1] ELSE IF k = i + 1 THEN s[i] ELSE s[k]]

\* The same triples supplied in another insertion order (two neighbouring keys
\* exchanged) and reconciled a second time.
Resupply ==
    /\ pc = "filtered"
    /\ \E i \in 1..(Len(canvasMinMax) - 1) :
          /\ canvasMinMax' = SwapAdjacent(canvasMinMax, i)
          /\ mapping' = SwapAdjacent(mapping, i)
    /\ orderedCanvases' \in orderCanvasMapping(canvasMinMax')
    /\ filteredAnnotationMapping' \in orderAnnotationMapping(mapping')
    /\ pc' = "resupplied"
    /\ UNCHANGED << newManifest, cur, visited, annos, accepted, audioAccepted, imageAccepted,
                    audioManifest, collections, component >>

NextReconciler == OrderCanvases \/ OrderAnnotations \/ Resupply

SpecReconciler == InitReconciler /\ [][NextReconciler]_vars

\* ---------------------------------------------------------------- properties
PagesOrdered == pc \in { "ordered", "filtered", "written", "resupplied" }

NotesOrdered == pc \in { "filtered", "written", "resupplied" }

\* The partitions computed so far, each with the entries it was computed from.
Reconciled ==
    (IF PagesOrdered THEN { << orderedCanvases, CanvasEntries(canvasMinMax) >> } ELSE {})
      \cup (IF NotesOrdered THEN { << filteredAnnotationMapping, AnnotationEntries(mapping) >> }
            ELSE {})

RangeOf(s) == { s[i] : i \in 1..Len(s) }

MinOf(S) == CHOOSE x \in S : \A y \in S : x <= y

MaxOf(S) == CHOOSE x \in S : \A y \in S : x >= y

WellFormed(entries) ==
    \A i \in 1..Len(entries) :
        /\ ~IsNaN(entries[i].originalMin) /\ ~IsNaN(entries[i].originalMax)
        /\ entries[i].originalMin <= entries[i].originalMax

\* C1: every adjacent pair of output segments of orderCanvasMapping and of
\* orderAnnotationMapping is contiguous: segments[i].end = segments[i+1].start.
C1_Contiguous ==
    \A r \in Reconciled :
        \A i \in 1..(Len(r[1]) - 1) : r[1][i].end = r[1][i + 1].start

\* Three pages with overlapping ranges have been reconciled, pages and notes.
C1_Witness ==
    /\ pc = "filtered"
    /\ Len(orderedCanvases) = 3 /\ Len(filteredAnnotationMapping) = 3
    /\ canvasMinMax[1].max > canvasMinMax[2].min
    /\ orderedCanvases[2].end # canvasMinMax[3].min

\* C2 (as claimed, and already on well-formed triples): the output segments
\* are sorted ascending by start, whether or not the observed ranges overlap
\* or are nested.
C2_SortedByStart ==
    \A r \in Reconciled :
        WellFormed(r[2]) => \A i \in 1..(Len(r[1]) - 1) : r[1][i].start <= r[1][i + 1].start

\* The segments are ordered by start, none is inverted and no two overlap.
ProperPartition(segs) ==
    /\ \A i \in 1..Len(segs) : segs[i].start <= segs[i].end
    /\ \A i, j \in 1..Len(segs) : i < j => segs[i].end <= segs[j].start

\* C3 (as claimed): for well-formed triples the output segments never
\* overlap: every segment has start <= end, and end[i] <= start[j] for i < j.
C3_NoOverlap ==
    \A r \in Reconciled :
        WellFormed(r[2]) =>
            ProperPartition(r[1])

\* C4 (as claimed): for a non-empty set of well-formed triples the first
\* segment starts at the least observedMin and the last segment ends at the
\* greatest observedMax of all triples.  (Stated of the runs whose segments
\* form a proper partition, where it fails all the same.)
C4_CoversMinToMax ==
    \A r \in Reconciled :
        (r[2] # << >> /\ WellFormed(r[2]) /\ ProperPartition(r[1])) =>
            /\ Len(r[1]) >= 1
            /\ r[1][1].start = MinOf({ e.originalMin : e \in RangeOf(r[2]) })
            /\ r[1][Len(r[1])].end = MaxOf({ e.originalMax : e \in RangeOf(r[2]) })

\* C4 (amended): for a non-empty set of well-formed triples the first segment
\* starts at the least observedMin of all triples, and the last segment ends
\* at the observedMax of its own triple, a triple of greatest observedMin.
C4_CoversFirstMinToLastMax ==
    \A r \in Reconciled :
        (r[2] # << >> /\ WellFormed(r[2])) =>
            /\ Len(r[1]) >= 1
            /\ r[1][1].start = MinOf({ e.originalMin : e \in RangeOf(r[2]) })
            /\ LET last == Get(r[2], r[1][Len(r[1])].id)
               IN  /\ r[1][Len(r[1])].end = last.originalMax
                   /\ last.originalMin = MaxOf({ e.originalMin : e \in RangeOf(r[2]) })

\* Two well-formed pages, the one sorted last ending before the other does.
C4_Witness ==
    /\ pc = "filtered"
    /\ Len(orderedCanvases) = 2
    /\ WellFormed(CanvasEntries(canvasMinMax))
    /\ canvasMinMax[1].min <= canvasMinMax[2].min
    /\ canvasMinMax[2].max < canvasMinMax[1].max
    /\ ProperPartition(orderedCanvases)
    /\ orderedCanvases[2].end = canvasMinMax[2].max

C6_OrderIndependent ==
    [][pc' = "resupplied" =>
          /\ RangeOf(orderedCanvases') = RangeOf(orderedCanvases)
          /\ RangeOf(filteredAnnotationMapping') = RangeOf(filteredAnnotationMapping)]_vars

\* C7: no triples give no segments, and a single triple gives exactly one
\* segment, from its observedMin to its observedMax.
C7_EmptyAndSingle ==
    \A r \in Reconciled :
        /\ Len(r[2]) = 0 => r[1] = << >>
        /\ Len(r[2]) = 1 => r[1] = << [id    |-> r[2][1].id,
                                       start |-> r[2][1].originalMin,
                                       end   |-> r[2][1].originalMax] >>

\* A single page, and a single note, of positive length have been reconciled.
C7_Witness ==
    /\ pc = "filtered"
    /\ Len(canvasMinMax) = 1 /\ Len(orderedCanvases) = 1 /\ Len(filteredAnnotationMapping) = 1
    /\ canvasMinMax[1].min < canvasMinMax[1].max

\* The ids of the segments of a partition.
KeysOf(segs) == { segs[i].id : i \in 1..Len(segs) }

\* The ids of the highlighting annotations of the output document.
Highlighted ==
    IF newManifest = Unset THEN {}
    ELSE { newManifest[1].annotations[i].id : i \in 1..Len(newManifest[1].annotations) }

\* C8: the note partition and the emitted highlighting annotations hold a
\* note id only if the id had an accepted temporal entry and an accepted
\* spatial entry.
C8_JoinNeedsBoth ==
    \A id \in KeysOf(filteredAnnotationMapping) \cup Highlighted :
        audioAccepted[id] # Unset /\ imageAccepted[id] # {}

\* The document is written with a joined note in it, while another id, seen
\* in the spatial collection only, is in neither the partition nor the document.
C8_Witness ==
    /\ pc = "written"
    /\ Highlighted # {}
    /\ \E id \in NoteIds :
          /\ imageAccepted[id] # {} /\ audioAccepted[id] = Unset
          /\ id \notin KeysOf(filteredAnnotationMapping) \cup Highlighted

\* The parsed time range of id has a NaN field.
HasNaNRange(id) ==
    /\ HasKey(mapping, id)
    /\ Get(mapping, id).audio # Unset
    /\ IsNaN(Get(mapping, id).audio[1].start) \/ IsNaN(Get(mapping, id).audio[1].end)

\* C9 (as claimed): a note whose temporal fragment omits a bound has no usable
\* range: it gets no polygon, no page min or max becomes NaN, and it is not in
\* the note partition.
C9_NaNRangeUnusable ==
    /\ \A id \in NoteIds :
          HasNaNRange(id) =>
              /\ Get(mapping, id).svgSelector = Unset
              /\ id \notin KeysOf(filteredAnnotationMapping)
    /\ \A i \in 1..Len(canvasMinMax) :
          ~IsNaN(canvasMinMax[i].min) /\ ~IsNaN(canvasMinMax[i].max)

\* The string holds no "t=", so the temporal pattern matches nowhere in it.
NoTemporalPattern(frag) ==
    \A i \in 1..(Len(frag) - 1) : ~(frag[i] = "t" /\ frag[i + 1] = "=")

\* C10: an accepted temporal entry whose selector value does not match the
\* temporal pattern leaves its note the range {start: 0, end: 0}; this is no
\* error, the script goes on with that range.
C10_UnmatchedIsZero ==
    \A id \in NoteIds :
        (audioAccepted[id] # Unset /\ NoTemporalPattern(audioAccepted[id][1])) =>
            /\ HasKey(mapping, id)
            /\ Get(mapping, id).audio = Some([start |-> 0, end |-> 0])

\* The document is written, and the note of an unmatched fragment is
\* highlighted in it from time 0.
C10_Witness ==
    /\ pc = "written"
    /\ \E i \in 1..Len(newManifest[1].annotations) :
          LET h == newManifest[1].annotations[i]
          IN  /\ NoTemporalPattern(audioAccepted[h.id][1])
              /\ h.start = 0

\* The annotation's body is audio content: a Sound, or of an audio format.
IsAudioContent(anno) ==
    /\ anno.body # Unset
    /\ anno.body[1].type = "Sound" \/ anno.body[1].format \in { "audio/mp4", "audio/mpeg" }

\* The canvas at index of the manifest exists and holds audio content.
AudioCanvasAt(man, index) ==
    /\ index < Len(man)
    /\ \E p \in 1..Len(man[index + 1].items) :
          \E a \in 1..Len(man[index + 1].items[p].items) :
              IsAudioContent(man[index + 1].items[p].items[a])

\* C11: when the four documents are there and the selected canvas index is
\* out of range of the audio manifest, or the canvas at that index holds no
\* audio content, generateManifest ends with an error message and with
\* generatedManifest empty; and whatever generatedManifest holds is the whole
\* document, with every page segment and every note segment in it.
C11_InvalidCanvasFails ==
    [][(pc = "fetching" /\ AllFulfilled) =>
          /\ ~AudioCanvasAt(PromiseOf("audioManifest").value[1], closure[1].selectedCanvasIndex)
                => (generatedManifest' = Unset /\ error' # Unset /\ ~isLoading')
          /\ generatedManifest' # Unset =>
                /\ generatedManifest' = newManifest'
                /\ Len(generatedManifest'[1].items) = 1 + Len(orderedCanvases')
                /\ Len(generatedManifest'[1].annotations) = Len(filteredAnnotationMapping')]_vars

\* A run on joined notes has ended in the error of a canvas without audio
\* content, after the pages were reconciled, with no document shown.
C11_Witness ==
    /\ pc = "idle"
    /\ audioManifest # Unset
    /\ closure[1].selectedCanvasIndex < Len(audioManifest[1])
    /\ ~AudioCanvasAt(audioManifest[1], closure[1].selectedCanvasIndex)
    /\ orderedCanvases # << >>
    /\ error = << "Error generating manifest", "does not contain audio content" >>
    /\ generatedManifest = Unset

\* C12: generateManifest issues the four fetches together; the join (the
\* first use of the fetched collections) happens only in a step taken when
\* all four promises are fulfilled, in whatever order they were; and once a
\* fetch is rejected the run ends at once with an error message, no join and
\* no document.
C12_JoinAfterAllFetched ==
    [][/\ (pc = "idle" /\ pc' = "fetching") =>
             /\ Len(promises') = Len(Resources)
             /\ \A i \in 1..Len(Resources) : promises'[i].state = "pending"
       /\ (pc = "fetching" /\ (mapping' # mapping \/ collections' # collections
                                 \/ generatedManifest' # generatedManifest)) =>
             \A i \in 1..Len(Resources) : promises[i].state = "fulfilled"
       /\ (pc = "fetching" /\ \E i \in 1..Len(Resources) : promises[i].state = "rejected") =>
             /\ pc' = "idle"
             /\ error' # Unset
             /\ generatedManifest' = Unset /\ newManifest' = Unset
             /\ mapping' = << >> /\ audioAnnotations' = Unset /\ imageAnnotations' = Unset]_vars

\* A run has been aborted by a failed fetch: a network error is shown, nothing
\* was joined and there is no document.
C12_Witness ==
    /\ pc = "idle"
    /\ closure # Unset
    /\ error = << "Network error", "Failed to fetch" >>
    /\ audioAnnotations = Unset
    /\ generatedManifest = Unset

\* C13 (as claimed): the turn of the spatial pass on an accepted entry whose
\* source is no image service of the manifest, for an id that has temporal
\* data, does not halt the run, leaves the page accumulator as it is and gives
\* the note no spatial selector.
C13_UnresolvedIsExcluded ==
    [][(/\ pc = "image" /\ cur # 0
        /\ HasKey(mapping, cur) /\ Get(mapping, cur).audio # Unset
        /\ \E src \in imageAccepted'[cur] \ imageAccepted[cur] : src \notin 1..MaxPages) =>
          /\ pc' = "image"
          /\ canvasMinMax' = canvasMinMax
          /\ Get(mapping', cur).svgSelector = Get(mapping, cur).svgSelector]_vars

\* C14 (as claimed): building the output document changes nothing but the
\* output: the audio manifest document is after it what it was before.
C14_InputsReadOnly ==
    [][(pc = "filtered" /\ pc' = "written") => audioManifest' = audioManifest]_vars

\* The painting annotations of the scanned images in the output document
\* (the items behind the audio annotation).
Paintings == IF newManifest = Unset THEN << >> ELSE Tail(newManifest[1].items)

\* C15 (as claimed): the output document holds exactly one painting annotation
\* for each canvas of the image manifest, targeting that canvas's segment of
\* the page partition.
C15_PaintingPerCanvas ==
    pc = "written" =>
        \A c \in 1..MaxPages :
            /\ Cardinality({ i \in 1..Len(Paintings) : Paintings[i].body = c }) = 1
            /\ \E i \in 1..Len(Paintings) :
                  \E k \in 1..Len(orderedCanvases) :
                      /\ Paintings[i].body = c /\ orderedCanvases[k].id = c
                      /\ Paintings[i].start = orderedCanvases[k].start
                      /\ Paintings[i].end = orderedCanvases[k].end

\* The spatial pass with the return of a turn read as a skip of that one
\* entry: the loop over annotationList goes on after it.
RECURSIVE ImageListSkipping(_, _, _, _, _)
ImageListSkipping(m, cmm, id, annotationList, k) ==
    IF k > Len(annotationList) THEN [mapping |-> m, canvasMinMax |-> cmm, outcome |-> "next"]
    ELSE LET after == ImageEntry(m, cmm, id, annotationList[k])
         IN  IF after.outcome = "throw" THEN after
             ELSE ImageListSkipping(after.mapping, after.canvasMinMax, id, annotationList, k + 1)

RECURSIVE ImageForEachSkipping(_, _, _, _)
ImageForEachSkipping(m, cmm, collection, i) ==
    IF i > Len(collection) THEN [mapping |-> m, canvasMinMax |-> cmm, threw |-> FALSE]
    ELSE LET after == ImageListSkipping(m, cmm, collection[i].id, collection[i].annotations, 1)
         IN  IF after.outcome = "throw"
             THEN [mapping |-> after.mapping, canvasMinMax |-> after.canvasMinMax,
                   threw |-> TRUE]
             ELSE ImageForEachSkipping(after.mapping, after.canvasMinMax, collection, i + 1)

\* The two passes on the collections, as the script makes them and with the
\* return read as a skip.
Joined(audioAnnos, imageAnnos) ==
    ImageForEach(AudioForEach(<< >>, audioAnnos, 1).mapping, << >>, imageAnnos, 1)

JoinedSkipping(audioAnnos, imageAnnos) ==
    ImageForEachSkipping(AudioForEach(<< >>, audioAnnos, 1).mapping, << >>, imageAnnos, 1)

\* C16 (as claimed): among the collections the script may be started on,
\* there are some on which the spatial pass with the
\* return read as a skip of the one entry ends with another note mapping or
\* another page accumulator (and so other partitions) than the script's.
C16_ReturnObservable ==
    pc = "audio" =>
        \E audioAnnos \in AudioCollections : \E imageAnnos \in ImageCollections :
            Joined(audioAnnos, imageAnnos) # JoinedSkipping(audioAnnos, imageAnnos)

\* C16 (amended): on every pair of collections, what the script has after its
\* spatial pass (the note mapping, the page accumulator, whether it threw) and
\* the partitions it makes of them are what the pass with the return read as
\* a skip of the one entry gives.
C16_ReturnIsSkip ==
    (pc \in { "accumulated", "ordered", "filtered", "written", "failed" }
       /\ ~AudioForEach(<< >>, audioAnnotations[1], 1).threw) =>
        LET skipping == JoinedSkipping(audioAnnotations[1], imageAnnotations[1])
        IN  /\ mapping = skipping.mapping
            /\ canvasMinMax = skipping.canvasMinMax
            /\ skipping.threw <=> (pc = "failed" /\ newManifest = Unset /\ orderedCanvases = << >>)
            /\ PagesOrdered => orderedCanvases \in orderCanvasMapping(skipping.canvasMinMax)
            /\ NotesOrdered =>
                  filteredAnnotationMapping \in orderAnnotationMapping(skipping.mapping)

\* The spatial pass is over; the callback of an id without a time range was
\* left at its first entry with an accepted entry on a page behind it, and
\* another id was joined.
C16_Witness ==
    /\ pc = "accumulated"
    /\ canvasMinMax # << >>
    /\ \E i \in 1..Len(imageAnnotations[1]) :
          LET entry == imageAnnotations[1][i]
          IN  /\ NoAudio(mapping, entry.id)
              /\ Len(entry.annotations) = 2
              /\ Accepted(entry.annotations[1])
              /\ Accepted(entry.annotations[2])
              /\ entry.annotations[2].source[1] \in 1..MaxPages

\* C17: during and after the temporal pass the time range of a note is the
\* one parsed from the last accepted entry under its id, however many were
\* accepted before it; and a turn on an entry that is not accepted (no body
\* source, or a selector of another type) leaves every record as it is.
C17_LastWriteWins ==
    [][/\ \A id \in NoteIds :
             audioAccepted'[id] # Unset =>
                 /\ HasKey(mapping', id)
                 /\ Get(mapping', id).audio = Some(getTime(audioAccepted'[id][1]))
       /\ (pc = "audio" /\ pc' = "audio" /\ audioAccepted' = audioAccepted) =>
             mapping' = mapping]_vars

\* The second of two accepted entries under one id has just been taken, and
\* the record holds the range of the second, which starts after 0.
C17_Witness ==
    /\ pc = "audio"
    /\ cur # 0
    /\ accepted = 2
    /\ Get(mapping, cur).audio = Some(getTime(audioAccepted[cur][1]))
    /\ getTime(audioAccepted[cur][1]).start > 0

\* x <= y and x >= y of JavaScript: false when either side is NaN.
LessOrEqual(x, y) == ~IsNaN(x) /\ ~IsNaN(y) /\ x <= y

GreaterOrEqual(x, y) == ~IsNaN(x) /\ ~IsNaN(y) /\ x >= y

\* The ids with a time range and an accepted spatial entry on the page c.
QualifyingOn(audioIds, imageIds, c) ==
    { id \in NoteIds : audioIds[id] # Unset /\ c \in imageIds[id] }

\* C18 (as claimed): at every step of the spatial pass a page that has an
\* accumulator entry keeps one, its min the same or lower and its max the
\* same or higher; and when the pass is over, the min of a page is the least
\* start and its max the greatest end of the notes that qualify on it.
C18_AccumulatorMonotonic ==
    [][/\ pc = "image" =>
             \A i \in 1..Len(canvasMinMax) :
                 LET before == canvasMinMax[i]
                 IN  /\ HasKey(canvasMinMax', before.id)
                     /\ \/ Get(canvasMinMax', before.id).min = before.min
                        \/ LessOrEqual(Get(canvasMinMax', before.id).min, before.min)
                     /\ \/ Get(canvasMinMax', before.id).max = before.max
                        \/ GreaterOrEqual(Get(canvasMinMax', before.id).max, before.max)
       /\ (pc = "image" /\ pc' = "accumulated") =>
             \A i \in 1..Len(canvasMinMax') :
                 LET page == canvasMinMax'[i]
                     audioOf(id) == Get(mapping', id).audio[1]
                     qualifying  == QualifyingOn(audioAccepted', imageAccepted', page.id)
                 IN  /\ \E id \in qualifying : page.min = audioOf(id).start
                     /\ \E id \in qualifying : page.max = audioOf(id).end
                     /\ \A id \in qualifying :
                           /\ \/ page.min = audioOf(id).start
                              \/ LessOrEqual(page.min, audioOf(id).start)
                           /\ \/ page.max = audioOf(id).end
                              \/ GreaterOrEqual(page.max, audioOf(id).end)]_vars

\* C19: the page partition holds one segment for each page of the
\* accumulator and no other; and a page of the image manifest on which no
\* note with temporal data has an accepted spatial entry is in neither.
C19_SegmentPerAccumulatedPage ==
    PagesOrdered =>
        /\ Len(orderedCanvases) = Len(canvasMinMax)
        /\ Cardinality(KeysOf(orderedCanvases)) = Len(orderedCanvases)
        /\ KeysOf(orderedCanvases) = KeysOf(canvasMinMax)
        /\ \A c \in 1..MaxPages :
              QualifyingOn(audioAccepted, imageAccepted, c) = {} =>
                  c \notin KeysOf(canvasMinMax) \cup KeysOf(orderedCanvases)

\* The document is written with a segment for page 1 alone, page 2 having had
\* an accepted spatial entry, but of a note without temporal data.
C19_Witness ==
    /\ pc = "written"
    /\ KeysOf(canvasMinMax) = { 1 }
    /\ KeysOf(orderedCanvases) = { 1 }
    /\ \E id \in NoteIds : audioAccepted[id] = Unset /\ 2 \in imageAccepted[id]

\* Every range a partition was made of is well-formed: no NaN, start <= end.
AllWellFormed == WellFormed(CanvasEntries(canvasMinMax)) /\ WellFormed(AnnotationEntries(mapping))

\* C20 (as claimed): with all ranges well-formed, the segment of every note of
\* the note partition lies within the segment of the page its polygon was
\* resolved onto.
C20_NoteWithinItsPage ==
    (NotesOrdered /\ AllWellFormed) =>
        \A i \in 1..Len(filteredAnnotationMapping) :
            LET note == filteredAnnotationMapping[i]
                page == Get(orderedCanvases, Get(mapping, note.id).minMax[1])
            IN  page.start <= note.start /\ note.end <= page.end

\* No two of the entries overlap: of any two, one starts first and ends no
\* later than the other starts.
NonOverlapping(entries) ==
    \A i, j \in 1..Len(entries) :
        i # j =>
            \/ entries[i].originalMin < entries[j].originalMin
                  /\ entries[i].originalMax <= entries[j].originalMin
            \/ entries[j].originalMin < entries[i].originalMin
                  /\ entries[j].originalMax <= entries[i].originalMin

C22_EmittedAudioWasAudio ==
    [][(pc = "fetching" /\ AllFulfilled /\ generatedManifest' # Unset) =>
          LET fetched == PromiseOf("audioManifest").value[1]
              canvas  == fetched[closure[1].selectedCanvasIndex + 1]
              first   == canvas.items[1].items[1]
          IN  /\ generatedManifest'[1].items[1].body =
                     Some([type |-> "Sound", format |-> "audio/mpeg"])
              /\ AudioCanvasAt(fetched, closure[1].selectedCanvasIndex)
              /\ IsAudioContent(first)]_vars

====
